---- MODULE Spec2Model ----
(***************************************************************************)
(* The tree-walking evaluator of pyrinha (src/pyrinha/main.py) as a state  *)
(* machine.  `evaluate` is recursive; the machine keeps its pending        *)
(* Python frames in `stack` and takes one step per match arm or per return *)
(* into a waiting frame.  Env objects are mutable dictionaries with        *)
(* identity, so they live in `heap` and are referred to by index.          *)
(* Source locations are left out: the evaluator matches them with `_`.     *)
(***************************************************************************)
EXTENDS Integers, Sequences, FiniteSets, TLC

VARIABLES prog, args_defined, mode, ctl, env, stack, heap, out, err

vars == <<prog, args_defined, mode, ctl, env, stack, heap, out, err>>

(* ------------------------------- AST ----------------------------------- *)

IntTerm(v) == [kind |-> "Int", value |-> v]
Str(s) == [kind |-> "Str", value |-> s]
Var(t) == [kind |-> "Var", text |-> t]
Let(n, v, nx) == [kind |-> "Let", name |-> n, value |-> v, next |-> nx]
Function(ps, body) == [kind |-> "Function", value |-> body, parameters |-> ps]
If(c, t, o) == [kind |-> "If", condition |-> c, then |-> t, otherwise |-> o]
Binary(l, o, r) == [kind |-> "Binary", lhs |-> l, op |-> o, rhs |-> r]
Call(f, as) == [kind |-> "Call", callee |-> f, arguments |-> as]
PrintTerm(v) == [kind |-> "Print", value |-> v]

\* BinaryOp member name -> Operator.token
Token ==
    [ADD |-> "+", SUB |-> "-", MUL |-> "*", DIV |-> "/", REM |-> "%",
     EQ |-> "==", NEQ |-> "!=", LT |-> "<", GT |-> ">", LTE |-> "<=",
     GTE |-> ">=", AND |-> "&", OR |-> "|", NOT |-> "!"]

BinaryOp == DOMAIN Token

(* ------------------------------ Values --------------------------------- *)

\* Literal.x is int | str | bool.  k is the Python type of x; exactly one of
\* i, s, b carries it.  A str is its sequence of code points.
LitInt(n) == [t |-> "Literal", k |-> "int", i |-> n, s |-> <<>>, b |-> FALSE]
LitStr(cs) == [t |-> "Literal", k |-> "str", i |-> 0, s |-> cs, b |-> FALSE]
LitBool(v) == [t |-> "Literal", k |-> "bool", i |-> 0, s |-> <<>>, b |-> v]

Closure(fn, e) == [t |-> "Closure", function |-> fn, env |-> e]

global_env == [n \in {"true", "false"} |-> LitBool(n = "true")]

with_values(values, extra) ==
    [n \in (DOMAIN values) \cup (DOMAIN extra) |->
        IF n \in DOMAIN extra THEN extra[n] ELSE values[n]]

(* --------------------------- str() of values --------------------------- *)

RECURSIVE Digits(_)
Digits(n) == IF n < 10 THEN <<48 + n>> ELSE Digits(n \div 10) \o <<48 + (n % 10)>>

IntToStr(n) == IF n < 0 THEN <<45>> \o Digits(-n) ELSE Digits(n)

\* "True" and "False"
BoolToStr(v) == IF v THEN <<84, 114, 117, 101>> ELSE <<70, 97, 108, 115, 101>>

LiteralStr(v) ==
    CASE v.k = "int" -> IntToStr(v.i)
      [] v.k = "str" -> v.s
      [] v.k = "bool" -> BoolToStr(v.b)

\* "<Closure#": the identity tag and the text of the global `args` that
\* follow it depend on the process and are left out.
ClosureStr == <<60, 67, 108, 111, 115, 117, 114, 101, 35>>

\* Closure.__str__ reads the module global `args`, which exists only when the
\* module runs as a script.
StrFails(v) == v.t = "Closure" /\ ~args_defined

ValueStr(v) == IF v.t = "Closure" THEN ClosureStr ELSE LiteralStr(v)

(* -------------------------- Binary operators --------------------------- *)

\* isinstance(x, int): bool is a subclass of int
IsInt(v) == v.k \in {"int", "bool"}
IsStr(v) == v.k = "str"
IsBool(v) == v.k = "bool"

\* the integer a Python int or bool stands for
Num(v) == IF v.k = "bool" THEN (IF v.b THEN 1 ELSE 0) ELSE v.i

\* Python //
FloorDiv(a, b) == IF b > 0 THEN a \div b ELSE (-a) \div (-b)

\* Python %
PyMod(a, b) == a - b * FloorDiv(a, b)

\* Python < on str
RECURSIVE StrLess(_, _)
StrLess(a, b) ==
    IF b = <<>> THEN FALSE
    ELSE IF a = <<>> THEN TRUE
    ELSE IF Head(a) < Head(b) THEN TRUE
    ELSE IF Head(a) > Head(b) THEN FALSE
    ELSE StrLess(Tail(a), Tail(b))

\* Literal.__eq__ as attrs generates it: same class and (x,) == (x,), the
\* tuple comparison being Python's == on the scalars
LiteralEq(l, r) ==
    IF IsInt(l) /\ IsInt(r) THEN Num(l) = Num(r)
    ELSE IF IsStr(l) /\ IsStr(r) THEN l.s = r.s
    ELSE FALSE

Value(v) == [tag |-> "value", val |-> v, err |-> ""]
Raises(e) == [tag |-> "raise", val |-> LitInt(0), err |-> e]
HostError(e) == [tag |-> "host", val |-> LitInt(0), err |-> e]

IntDivide(a, b) ==
    IF b = 0 THEN HostError("ZeroDivisionError") ELSE Value(LitInt(FloorDiv(a, b)))

IntRemainder(a, b) ==
    IF b = 0 THEN HostError("ZeroDivisionError") ELSE Value(LitInt(PyMod(a, b)))

\* match op.value.token, lhs.x, rhs.x
BinaryDispatch(tok, l, r) ==
    LET ii == IsInt(l) /\ IsInt(r)
        ss == IsStr(l) /\ IsStr(r)
        bb == IsBool(l) /\ IsBool(r)
    IN  CASE tok = "+" /\ ii -> Value(LitInt(Num(l) + Num(r)))
          [] tok = "+" /\ ss -> Value(LitStr(l.s \o r.s))
          [] tok = "-" /\ ii -> Value(LitInt(Num(l) - Num(r)))
          [] tok = "*" /\ ii -> Value(LitInt(Num(l) * Num(r)))
          [] tok = "/" /\ ii -> IntDivide(Num(l), Num(r))
          [] tok = "%" /\ ii -> IntRemainder(Num(l), Num(r))
          [] tok = "==" -> Value(LitBool(LiteralEq(l, r)))
          [] tok = "!=" -> Value(LitBool(~LiteralEq(l, r)))
          [] tok = "<" /\ ii -> Value(LitBool(Num(l) < Num(r)))
          [] tok = "<" /\ ss -> Value(LitBool(StrLess(l.s, r.s)))
          [] tok = ">" /\ ii -> Value(LitBool(Num(l) > Num(r)))
          [] tok = ">" /\ ss -> Value(LitBool(StrLess(r.s, l.s)))
          [] tok = "<=" /\ ii -> Value(LitBool(Num(l) <= Num(r)))
          [] tok = "<=" /\ ss -> Value(LitBool(~StrLess(r.s, l.s)))
          [] tok = ">=" /\ ii -> Value(LitBool(Num(l) >= Num(r)))
          [] tok = ">=" /\ ss -> Value(LitBool(~StrLess(l.s, r.s)))
          [] tok = "&" /\ bb -> Value(LitBool(l.b /\ r.b))
          [] tok = "|" /\ bb -> Value(LitBool(l.b \/ r.b))
          [] OTHER -> Raises("Invalid operands")

\* the two matches of the Binary arm, after both operands are evaluated
BinaryOutcome(o, l, r) ==
    IF l.t = "Literal" /\ r.t = "Literal" THEN BinaryDispatch(Token[o], l, r)
    ELSE IF StrFails(l) \/ StrFails(r) THEN HostError("NameError")
    ELSE Raises("Invalid operands")

(* ------------------------------ Programs ------------------------------- *)

\* The programs the evaluator is run on.  Each family is built around one
\* construct; str literals are sequences of code points.

MaxInt == 2
MaxStrLen == 1
MaxArity == 2
MaxFact == 5
MaxFib == 10

IntVals == (0 - MaxInt)..MaxInt

SeqsUpTo(S, n) == UNION {[1..k -> S] : k \in 0..n}

\* strings over "a", "b"
StrVals == SeqsUpTo({97, 98}, MaxStrLen)

true == Var("true")
false == Var("false")

LiteralOperands ==
    {IntTerm(n) : n \in IntVals} \cup {Str(cs) : cs \in StrVals} \cup {true, false}

FunctionOperand == Function(<<>>, IntTerm(0))

Operands == LiteralOperands \cup {FunctionOperand}

\* a op b
BinaryPrograms == {Binary(a, o, b) : a, b \in Operands, o \in BinaryOp}

Undefined == Var("undefined")

\* print(a) op print(b), and an lhs that fails
BinaryPrintPrograms ==
    {Binary(PrintTerm(a), o, PrintTerm(b)) : a, b \in LiteralOperands, o \in BinaryOp}
    \cup {Binary(Undefined, o, PrintTerm(b)) : b \in LiteralOperands, o \in BinaryOp}

ThenBranch == PrintTerm(Str(<<84>>))
ElseBranch == PrintTerm(Str(<<69>>))

\* conditions that are computed rather than looked up
ComputedConditions ==
    {Binary(IntTerm(1), "EQ", IntTerm(1)), Binary(IntTerm(1), "LT", IntTerm(0)),
     Binary(true, "MUL", true), Binary(true, "AND", false),
     Binary(IntTerm(0), "ADD", IntTerm(0)), Binary(Str(<<>>), "ADD", Str(<<>>))}

\* if c { print("T") } else { print("E") }
IfPrograms ==
    {If(c, ThenBranch, ElseBranch) : c \in Operands \cup ComputedConditions}

Routes == {"direct", "rebound", "argument", "returned", "returned_bound"}

GetX == Function(<<>>, Var("x"))

\* let x = v1; let f = fn () => x; let x = v2; <call of f along a route>
CaptureProgram(v1, v2, route) ==
    CASE route = "direct" ->
            Let("x", IntTerm(v1), Let("f", GetX, Let("x", IntTerm(v2),
                Call(Var("f"), <<>>))))
      [] route = "rebound" ->
            Let("x", IntTerm(v1), Let("f", GetX, Let("x", IntTerm(v2),
                Let("g", Var("f"), Call(Var("g"), <<>>)))))
      [] route = "argument" ->
            Let("x", IntTerm(v1), Let("f", GetX, Let("x", IntTerm(v2),
                Let("app", Function(<<"h">>, Call(Var("h"), <<>>)),
                    Call(Var("app"), <<Var("f")>>)))))
      [] route = "returned" ->
            Let("x", IntTerm(v1), Let("mk", Function(<<>>, GetX), Let("x", IntTerm(v2),
                Call(Call(Var("mk"), <<>>), <<>>))))
      [] route = "returned_bound" ->
            Let("x", IntTerm(v1), Let("mk", Function(<<>>, GetX), Let("x", IntTerm(v2),
                Let("h", Call(Var("mk"), <<>>), Call(Var("h"), <<>>)))))

CapturePrograms ==
    {CaptureProgram(v1, v2, r) : v1, v2 \in IntVals, r \in Routes}

\* let f = fn (n) => if n == 0 { 1 } else { n * f(n - 1) }; f(n)
FactProgram(n) ==
    Let("f",
        Function(<<"n">>,
            If(Binary(Var("n"), "EQ", IntTerm(0)),
               IntTerm(1),
               Binary(Var("n"), "MUL",
                      Call(Var("f"), <<Binary(Var("n"), "SUB", IntTerm(1))>>)))),
        Call(Var("f"), <<IntTerm(n)>>))

\* let fib = fn (n) => if n < 2 { n } else { fib(n - 1) + fib(n - 2) }; print(fib(n))
FibProgram(n) ==
    Let("fib",
        Function(<<"n">>,
            If(Binary(Var("n"), "LT", IntTerm(2)),
               Var("n"),
               Binary(Call(Var("fib"), <<Binary(Var("n"), "SUB", IntTerm(1))>>),
                      "ADD",
                      Call(Var("fib"), <<Binary(Var("n"), "SUB", IntTerm(2))>>)))),
        PrintTerm(Call(Var("fib"), <<IntTerm(n)>>)))

RecursionPrograms ==
    {FactProgram(n) : n \in 0..MaxFact} \cup {FibProgram(n) : n \in 0..MaxFib}

ParamLists == SeqsUpTo({"a", "b"}, MaxArity)

\* print("A"), print("B"), print(x)
ArgTerms == {PrintTerm(Str(<<65>>)), PrintTerm(Str(<<66>>)), PrintTerm(Var("x"))}

ArgLists == SeqsUpTo(ArgTerms, MaxArity)

Bodies == {PrintTerm(Var("a")), PrintTerm(Var("b"))}

\* f, a callee that prints before it yields f, and a callee that is no closure
Callees == {Var("f"), If(PrintTerm(true), Var("f"), Var("f")), PrintTerm(IntTerm(5))}

\* let x = "P"; let f = fn (ps) => body; let x = "Q"; callee(args)
CallProgram(ps, body, callee, args) ==
    Let("x", Str(<<80>>), Let("f", Function(ps, body), Let("x", Str(<<81>>),
        Call(callee, args))))

CallPrograms ==
    {CallProgram(ps, body, callee, args) :
        ps \in ParamLists, body \in Bodies, callee \in Callees, args \in ArgLists}

Programs ==
    BinaryPrograms \cup BinaryPrintPrograms \cup IfPrograms \cup CapturePrograms
    \cup RecursionPrograms \cup CallPrograms \cup {PrintTerm(FunctionOperand)}

(* ------------------------------ Machine -------------------------------- *)

Init ==
    /\ prog \in Programs
    /\ args_defined \in BOOLEAN
    /\ mode = "eval"
    /\ ctl = prog
    /\ env = 1
    /\ stack = <<>>
    /\ heap = <<global_env>>
    /\ out = <<>>
    /\ err = ""

\* `return env, v` out of one call of evaluate
Returns(e, v) ==
    /\ mode' = "ret"
    /\ ctl' = v
    /\ env' = e

\* raise ExecutionError(...): nothing catches it, every frame is unwound
RaiseExecutionError(msg) ==
    /\ mode' = "error"
    /\ err' = msg
    /\ stack' = <<>>
    /\ UNCHANGED <<prog, args_defined, ctl, env, heap, out>>

\* an exception of the host that is not an ExecutionError
RaiseHostException(name) ==
    /\ mode' = "crash"
    /\ err' = name
    /\ stack' = <<>>
    /\ UNCHANGED <<prog, args_defined, ctl, env, heap, out>>

Evaluating(kind) == mode = "eval" /\ ctl.kind = kind

Returning(f) == mode = "ret" /\ stack # <<>> /\ Head(stack).f = f

\* evaluate(e, term) called from a frame that waits for its result
Push(frame, e, term) ==
    /\ stack' = <<frame>> \o stack
    /\ mode' = "eval"
    /\ ctl' = term
    /\ env' = e

\* the frame on top of the stack goes on to its next call of evaluate
Continue(frame, e, term) ==
    /\ stack' = <<frame>> \o Tail(stack)
    /\ mode' = "eval"
    /\ ctl' = term
    /\ env' = e

\* `return evaluate(e, term)` from the frame on top of the stack
TailEvaluate(e, term) ==
    /\ stack' = Tail(stack)
    /\ mode' = "eval"
    /\ ctl' = term
    /\ env' = e

EvalInt ==
    /\ Evaluating("Int")
    /\ Returns(env, LitInt(ctl.value))
    /\ UNCHANGED <<prog, args_defined, stack, heap, out, err>>

EvalStr ==
    /\ Evaluating("Str")
    /\ Returns(env, LitStr(ctl.value))
    /\ UNCHANGED <<prog, args_defined, stack, heap, out, err>>

EvalVar ==
    /\ Evaluating("Var")
    /\ IF ctl.text \notin DOMAIN heap[env]
       THEN RaiseExecutionError("unknown variable")
       ELSE /\ Returns(env, heap[env][ctl.text])
            /\ UNCHANGED <<prog, args_defined, stack, heap, out, err>>

EvalFunction ==
    /\ Evaluating("Function")
    /\ Returns(env, Closure(ctl, env))
    /\ UNCHANGED <<prog, args_defined, stack, heap, out, err>>

EvalLet ==
    /\ Evaluating("Let")
    /\ Push([f |-> "Let", env |-> env, name |-> ctl.name, next |-> ctl.next],
            env, ctl.value)
    /\ UNCHANGED <<prog, args_defined, heap, out, err>>

\* LetEnv without the patch: the closure keeps the Env it was evaluated in
LetEnvUnpatched(values, name, val, id) ==
    with_values(values, [n \in {name} |-> val])

\* the Env that `next` is evaluated in: with_values, then the patch of the
\* recursive closure written into the new dictionary
LetEnv(values, name, val, id) ==
    IF val.t = "Closure"
    THEN [with_values(values, [n \in {name} |-> val])
            EXCEPT ![name] = Closure(val.function, id)]
    ELSE with_values(values, [n \in {name} |-> val])

\* LetBind with a with_values that updates the receiver's dictionary before
\* it copies it
LetBindAliased ==
    /\ Returning("Let")
    /\ LET fr == Head(stack)
           id == Len(heap) + 1
           updated == with_values(heap[fr.env], [n \in {fr.name} |-> ctl])
       IN  /\ heap' = Append([heap EXCEPT ![fr.env] = updated],
                             LetEnv(heap[fr.env], fr.name, ctl, id))
           /\ TailEvaluate(id, fr.next)
    /\ UNCHANGED <<prog, args_defined, out, err>>

LetBind ==
    /\ Returning("Let")
    /\ LET fr == Head(stack)
           id == Len(heap) + 1
       IN  /\ heap' = Append(heap, LetEnv(heap[fr.env], fr.name, ctl, id))
           /\ TailEvaluate(id, fr.next)
    /\ UNCHANGED <<prog, args_defined, out, err>>

EvalIf ==
    /\ Evaluating("If")
    /\ Push([f |-> "If", env |-> env, then |-> ctl.then, otherwise |-> ctl.otherwise],
            env, ctl.condition)
    /\ UNCHANGED <<prog, args_defined, heap, out, err>>

\* IsLiteral with the constants compared by == instead of by identity
IsLiteralTruthy(v, bool) ==
    v.t = "Literal" /\ v.k \in {"int", "bool"}
        /\ (IF v.k = "bool" THEN v.b = bool ELSE v.i = (IF bool THEN 1 ELSE 0))

\* case Literal(True) / case Literal(False): True and False match by identity
IsLiteral(v, bool) == v.t = "Literal" /\ v.k = "bool" /\ v.b = bool

IfDispatch ==
    /\ Returning("If")
    /\ LET fr == Head(stack)
       IN  IF IsLiteral(ctl, TRUE)
           THEN /\ TailEvaluate(fr.env, fr.then)
                /\ UNCHANGED <<prog, args_defined, heap, out, err>>
           ELSE IF IsLiteral(ctl, FALSE)
           THEN /\ TailEvaluate(fr.env, fr.otherwise)
                /\ UNCHANGED <<prog, args_defined, heap, out, err>>
           ELSE RaiseExecutionError("condition in 'if' is not boolean")

EvalBinary ==
    /\ Evaluating("Binary")
    /\ Push([f |-> "BinaryLhs", env |-> env, op |-> ctl.op, rhs |-> ctl.rhs],
            env, ctl.lhs)
    /\ UNCHANGED <<prog, args_defined, heap, out, err>>

\* BinaryRhs with a short-circuiting `&`
BinaryRhsShortCircuit ==
    /\ Returning("BinaryLhs")
    /\ LET fr == Head(stack)
       IN  IF fr.op = "AND" /\ IsLiteral(ctl, FALSE)
           THEN /\ Returns(fr.env, ctl)
                /\ stack' = Tail(stack)
           ELSE Continue([f |-> "BinaryRhs", env |-> fr.env, op |-> fr.op, lhs |-> ctl],
                         fr.env, fr.rhs)
    /\ UNCHANGED <<prog, args_defined, heap, out, err>>

BinaryRhs ==
    /\ Returning("BinaryLhs")
    /\ LET fr == Head(stack)
       IN  Continue([f |-> "BinaryRhs", env |-> fr.env, op |-> fr.op, lhs |-> ctl],
                    fr.env, fr.rhs)
    /\ UNCHANGED <<prog, args_defined, heap, out, err>>

BinaryApply ==
    /\ Returning("BinaryRhs")
    /\ LET fr == Head(stack)
           r == BinaryOutcome(fr.op, fr.lhs, ctl)
       IN  IF r.tag = "value"
           THEN /\ Returns(fr.env, r.val)
                /\ stack' = Tail(stack)
                /\ UNCHANGED <<prog, args_defined, heap, out, err>>
           ELSE IF r.tag = "raise"
           THEN RaiseExecutionError(r.err)
           ELSE RaiseHostException(r.err)

EvalCall ==
    /\ Evaluating("Call")
    /\ Push([f |-> "Callee", env |-> env, arguments |-> ctl.arguments],
            env, ctl.callee)
    /\ UNCHANGED <<prog, args_defined, heap, out, err>>

\* call_env = f.env.with_values(params); return evaluate(call_env, f.function.value)
ApplyClosure(fn, params) ==
    /\ heap' = Append(heap, with_values(heap[fn.env], params))
    /\ TailEvaluate(Len(heap) + 1, fn.function.value)

\* ArityMismatch that only notices missing arguments
ArityTooFew(arguments, fn) == Len(arguments) < Len(fn.function.parameters)

\* len(arguments) != len(f.function.parameters)
ArityMismatch(arguments, fn) == Len(arguments) # Len(fn.function.parameters)

\* ArgumentEnv that takes the Env the closure captured
ArgumentEnvOfClosure(caller, fn) == fn.env

\* the Env of `evaluate(env, arg)` inside the generator: the caller's
ArgumentEnv(caller, fn) == caller

\* zip(f.function.parameters, values) has an i-th pair
ZipHas(fn, arguments, i) == i <= Len(fn.function.parameters) /\ i <= Len(arguments)

\* the two checks on the callee, then the first pull on zip(parameters, values)
CallCheck ==
    /\ Returning("Callee")
    /\ LET fr == Head(stack)
       IN  IF ctl.t # "Closure"
           THEN RaiseExecutionError("is not callable")
           ELSE IF ArityMismatch(fr.arguments, ctl)
           THEN RaiseExecutionError("called with arguments")
           ELSE IF ~ZipHas(ctl, fr.arguments, 1)
           THEN /\ ApplyClosure(ctl, <<>>)
                /\ UNCHANGED <<prog, args_defined, out, err>>
           ELSE /\ Continue([f |-> "Args", env |-> fr.env, fn |-> ctl,
                             arguments |-> fr.arguments, params |-> <<>>, i |-> 1],
                            ArgumentEnv(fr.env, ctl), fr.arguments[1])
                /\ UNCHANGED <<prog, args_defined, heap, out, err>>

\* params[param.text] = value inside the dict comprehension
DictSet(d, key, v) == with_values(d, [n \in {key} |-> v])

\* one round of the dict comprehension over zip(f.function.parameters, values):
\* the value of argument i arrives, is stored under parameter i, and the
\* generator is pulled for the next argument or the closure is entered
ArgBind ==
    /\ Returning("Args")
    /\ LET fr == Head(stack)
           params == DictSet(fr.params, fr.fn.function.parameters[fr.i], ctl)
       IN  IF ZipHas(fr.fn, fr.arguments, fr.i + 1)
           THEN /\ Continue([fr EXCEPT !.params = params, !.i = fr.i + 1],
                            ArgumentEnv(fr.env, fr.fn), fr.arguments[fr.i + 1])
                /\ UNCHANGED <<prog, args_defined, heap, out, err>>
           ELSE /\ ApplyClosure(fr.fn, params)
                /\ UNCHANGED <<prog, args_defined, out, err>>

EvalPrint ==
    /\ Evaluating("Print")
    /\ Push([f |-> "Print", env |-> env], env, ctl.value)
    /\ UNCHANGED <<prog, args_defined, heap, out, err>>

\* print(val, end="")
PrintEmit ==
    /\ Returning("Print")
    /\ IF StrFails(ctl)
       THEN RaiseHostException("NameError")
       ELSE /\ out' = out \o ValueStr(ctl)
            /\ Returns(Head(stack).env, ctl)
            /\ stack' = Tail(stack)
            /\ UNCHANGED <<prog, args_defined, heap, err>>

\* the outermost evaluate returns to run_file
Return ==
    /\ mode = "ret"
    /\ stack = <<>>
    /\ mode' = "done"
    /\ UNCHANGED <<prog, args_defined, ctl, env, stack, heap, out, err>>

Next ==
    \/ EvalInt
    \/ EvalStr
    \/ EvalVar
    \/ EvalFunction
    \/ EvalLet
    \/ LetBind
    \/ EvalIf
    \/ IfDispatch
    \/ EvalBinary
    \/ BinaryRhs
    \/ BinaryApply
    \/ EvalCall
    \/ CallCheck
    \/ ArgBind
    \/ EvalPrint
    \/ PrintEmit
    \/ Return

Spec == Init /\ [][Next]_vars

Terminal == mode \in {"done", "error", "crash"}
(* ------------------------------ Properties ----------------------------- *)

\* a is an initial segment of b
Prefix(a, b) == Len(a) <= Len(b) /\ SubSeq(b, 1, Len(a)) = a

\* the Value a literal operand stands for: an Int or Str node, or the name
\* true or false of the initial Env
OperandValue(term) ==
    CASE term.kind = "Int" -> LitInt(term.value)
      [] term.kind = "Str" -> LitStr(term.value)
      [] term.kind = "Var" -> LitBool(term.text = "true")

LiteralPrograms == {Binary(a, o, b) : a, b \in LiteralOperands, o \in BinaryOp}

\* C1: a called closure sees every free variable of its body with the value
\* it had where its Function term was evaluated, whichever way the closure
\* reached the call: bound by a Let, bound again under another name, passed
\* as an argument or returned from a call.  Here x is v1 at the definition
\* and is shadowed by v2 before the call, so the call yields Literal(v1).
C1_LexicalCapture ==
    (prog \in CapturePrograms /\ Terminal)
        => (mode = "done" /\ ctl = LitInt(prog.value.value))

\* C3: `==` yields Literal(true) exactly when both Literals are of the same
\* kind and hold the same scalar, and `!=` yields the negation; Literals of
\* different kinds (1 and true, 0 and false) are never equal.
C3_Equality ==
    (prog \in LiteralPrograms /\ prog.op \in {"EQ", "NEQ"} /\ Terminal)
        => LET same == OperandValue(prog.lhs) = OperandValue(prog.rhs)
           IN  /\ mode = "done"
               /\ ctl = LitBool(IF prog.op = "EQ" THEN same ELSE ~same)

\* the operator table: the (token, lhs kind, rhs kind) combinations admitted
Admitted(tok, kl, kr) ==
    \/ tok = "+" /\ <<kl, kr>> \in {<<"int", "int">>, <<"str", "str">>}
    \/ tok \in {"-", "*", "/", "%"} /\ <<kl, kr>> = <<"int", "int">>
    \/ tok \in {"<", ">", "<=", ">="}
        /\ <<kl, kr>> \in {<<"int", "int">>, <<"str", "str">>}
    \/ tok \in {"==", "!="}
    \/ tok \in {"&", "|"} /\ <<kl, kr>> = <<"bool", "bool">>

\* C4: a Binary on two Literals whose (operator, lhs kind, rhs kind) the
\* operator table does not admit fails with the execution error and yields
\* no value.
C4_OperatorTable ==
    (/\ prog \in LiteralPrograms
     /\ Terminal
     /\ ~Admitted(Token[prog.op], OperandValue(prog.lhs).k, OperandValue(prog.rhs).k))
        => (mode = "error" /\ err = "Invalid operands")

\* q is the floor of a / b
IsFloorQuotient(q, a, b) ==
    IF b > 0 THEN q * b <= a /\ a < (q + 1) * b
    ELSE q * b >= a /\ a > (q + 1) * b

\* C5: `/` and `%` on two ints with a zero right operand fail with the
\* interpreter's own execution error, never with an exception of the host;
\* with a non-zero right operand `/` yields the floor of the quotient.
C5_DivisionByZero ==
    (/\ prog \in LiteralPrograms
     /\ prog.op \in {"DIV", "REM"}
     /\ prog.lhs.kind = "Int"
     /\ prog.rhs.kind = "Int"
     /\ Terminal)
        => IF prog.rhs.value = 0
           THEN mode = "error"
           ELSE /\ mode = "done"
                /\ ctl.t = "Literal"
                /\ ctl.k = "int"
                /\ prog.op = "DIV" => IsFloorQuotient(ctl.i, prog.lhs.value, prog.rhs.value)

RECURSIVE Factorial(_)
Factorial(n) == IF n = 0 THEN 1 ELSE n * Factorial(n - 1)

RECURSIVE Fibonacci(_)
Fibonacci(n) == IF n < 2 THEN n ELSE Fibonacci(n - 1) + Fibonacci(n - 2)

\* inside a recursive program the bound name resolves to a closure whose Env
\* maps the name to that same closure, and the programs compute n! and fib(n)
C2_Results ==
    prog \in RecursionPrograms =>
        /\ (mode = "eval" /\ ctl.kind = "Var" /\ ctl.text = prog.name) =>
                /\ prog.name \in DOMAIN heap[env]
                /\ LET c == heap[env][prog.name]
                   IN  /\ c.t = "Closure"
                       /\ c.function = prog.value
                       /\ heap[c.env][prog.name] = c
        /\ (Terminal /\ prog.name = "f") =>
                /\ mode = "done"
                /\ ctl = LitInt(Factorial(prog.next.arguments[1].value))
        /\ (Terminal /\ prog.name = "fib") =>
                /\ mode = "done"
                /\ out = IntToStr(Fibonacci(prog.next.value.arguments[1].value))

\* the step that binds a Let whose value is a Closure
C2_Step ==
    (Returning("Let") /\ ctl.t = "Closure") =>
        /\ mode' = "eval"
        /\ ctl' = Head(stack).next
        /\ heap'[env'][Head(stack).name] = Closure(ctl.function, env')

\* C2: when Let(name, value, next) binds a Closure, `next` is evaluated in an
\* Env that maps name to a closure whose captured Env is that same Env, so
\* the name resolves to the closure itself at every recursion depth; hence
\* the factorial program yields n! (120 for 5) and the fib program prints
\* fib(n) (55 for 10).
C2_RecursiveSelfBinding == [](C2_Results) /\ [][C2_Step]_vars

C2_Witness ==
    /\ prog = FactProgram(MaxFact)
    /\ mode = "eval"
    /\ ctl = Var("f")
    /\ Len(stack) > MaxFact
    /\ heap[heap[env]["f"].env]["f"] = heap[env]["f"]

(* calls *)

CallParams(p) == p.next.value.parameters
CallBody(p) == p.next.value.value
CallCallee(p) == p.next.next.next.callee
CallArgs(p) == p.next.next.next.arguments

\* what evaluating the callee prints: "True" for the If, "5" for print(5)
CalleeText(callee) ==
    CASE callee.kind = "If" -> <<84, 114, 117, 101>>
      [] callee.kind = "Print" -> <<53>>
      [] OTHER -> <<>>

\* what evaluating an argument in the caller's Env prints (x is "Q" there)
ArgText(arg) == IF arg.value.kind = "Str" THEN arg.value.value ELSE <<81>>

RECURSIVE ArgsText(_)
ArgsText(args) ==
    IF args = <<>> THEN <<>> ELSE ArgText(Head(args)) \o ArgsText(Tail(args))

Callable(p) == CallCallee(p).kind # "Print"
Matching(p) == Len(CallArgs(p)) = Len(CallParams(p))

\* the parameters that carry the name the body prints
BoundAt(p) == {i \in 1..Len(CallParams(p)) : CallParams(p)[i] = CallBody(p).value.text}

Last(S) == CHOOSE i \in S : \A j \in S : j <= i

\* a call of matching arity prints what the callee prints, then what each
\* argument prints, left to right and once each, then what the body prints,
\* the body seeing the value of argument i for each i in `positions`
CallBehaves(p, positions) ==
    LET before == CalleeText(CallCallee(p)) \o ArgsText(CallArgs(p))
    IN  IF BoundAt(p) = {}
        THEN /\ Prefix(out, before)
             /\ Terminal => (mode = "error" /\ err = "unknown variable" /\ out = before)
        ELSE \A i \in positions :
                LET seen == ArgText(CallArgs(p)[i])
                IN  /\ Prefix(out, before \o seen)
                    /\ Terminal =>
                        (mode = "done" /\ out = before \o seen /\ ctl = LitStr(seen))

\* C6 as stated: the callee is evaluated first, then every argument once, left
\* to right, in the caller's Env and before the body, and parameter i is
\* bound to the value of argument i.
C6_ArgumentOrder ==
    (prog \in CallPrograms /\ Callable(prog) /\ Matching(prog))
        => CallBehaves(prog, BoundAt(prog))

\* C6 as amended: the same order of evaluation, and each parameter name is
\* bound to the value of the argument at the last position that carries that
\* name (argument i when the names are distinct).
C6_ArgumentOrderLastWins ==
    (prog \in CallPrograms /\ Callable(prog) /\ Matching(prog))
        => CallBehaves(prog, {Last(BoundAt(prog))})

C6_Witness ==
    /\ prog = CallProgram(<<"a", "b">>, PrintTerm(Var("b")),
                          If(PrintTerm(true), Var("f"), Var("f")),
                          <<PrintTerm(Str(<<65>>)), PrintTerm(Var("x"))>>)
    /\ mode = "done"
    /\ out = <<84, 114, 117, 101, 65, 81, 81>>

\* C7: a call whose argument count differs from the parameter count fails
\* with the execution error before any argument is evaluated, so nothing an
\* argument prints reaches the output; a call whose callee is no Closure
\* fails likewise without evaluating an argument.
C7_ArityBeforeArguments ==
    (prog \in CallPrograms /\ (~Callable(prog) \/ ~Matching(prog))) =>
        LET before == CalleeText(CallCallee(prog))
        IN  /\ Prefix(out, before)
            /\ Terminal =>
                /\ mode = "error"
                /\ out = before
                /\ err = IF Callable(prog) THEN "called with arguments"
                                           ELSE "is not callable"

C7_Witness ==
    /\ prog \in CallPrograms
    /\ CallCallee(prog).kind = "If"
    /\ Len(CallArgs(prog)) > Len(CallParams(prog))
    /\ mode = "error"
    /\ err = "called with arguments"
    /\ out = <<84, 114, 117, 101>>

(* conditionals *)

\* which way an If goes on its condition: the name true, the name false, a
\* computed bool, or anything else
Branch(c) ==
    CASE c = true -> "then"
      [] c = false -> "otherwise"
      [] c = Binary(IntTerm(1), "EQ", IntTerm(1)) -> "then"
      [] c = Binary(IntTerm(1), "LT", IntTerm(0)) -> "otherwise"
      [] c = Binary(true, "AND", false) -> "otherwise"
      [] OTHER -> "error"

\* C8: an If whose condition is not the bool Literal true or false (an int
\* such as 1 or 0, a string, a Closure) fails with the execution error and
\* evaluates neither branch; on true only `then` is evaluated and on false
\* only `otherwise`.
C8_IfNeedsBool ==
    prog \in IfPrograms =>
        LET way == Branch(prog.condition)
            expected == CASE way = "then" -> <<84>>
                          [] way = "otherwise" -> <<69>>
                          [] OTHER -> <<>>
        IN  /\ Prefix(out, expected)
            /\ Terminal =>
                /\ out = expected
                /\ IF way = "error"
                   THEN mode = "error" /\ err = "condition in 'if' is not boolean"
                   ELSE mode = "done" /\ ctl = LitStr(expected)

C8_Witness ==
    /\ prog = If(IntTerm(1), ThenBranch, ElseBranch)
    /\ mode = "error"
    /\ err = "condition in 'if' is not boolean"
    /\ out = <<>>

(* environments *)

\* the closure a call is entering
Entered == IF Returning("Callee") THEN ctl ELSE Head(stack).fn

\* one step leaves every existing Env as it was; a Let or a call adds one Env
\* that holds the bindings of the Env it extends and the new ones on top
C9_Step ==
    /\ Len(heap') >= Len(heap)
    /\ \A e \in DOMAIN heap : heap'[e] = heap[e]
    /\ Returning("Let") =>
        LET parent == heap[Head(stack).env]
            name == Head(stack).name
            new == heap'[Len(heap')]
        IN  /\ Len(heap') = Len(heap) + 1
            /\ env' = Len(heap')
            /\ DOMAIN new = (DOMAIN parent) \cup {name}
            /\ \A n \in (DOMAIN parent) \ {name} : new[n] = parent[n]
            /\ new[name] = IF ctl.t = "Closure" THEN Closure(ctl.function, env') ELSE ctl
    /\ (~Returning("Let") /\ Len(heap') > Len(heap)) =>
        LET parent == heap[Entered.env]
            names == {Entered.function.parameters[i] :
                        i \in 1..Len(Entered.function.parameters)}
            new == heap'[Len(heap')]
        IN  /\ Len(heap') = Len(heap) + 1
            /\ env' = Len(heap')
            /\ DOMAIN new = (DOMAIN parent) \cup names
            /\ \A n \in (DOMAIN parent) \ names : new[n] = parent[n]

\* C9: evaluating a term never changes the bindings of the Env it was given
\* nor of an Env a Closure captured: with_values returns a new Env, the
\* receiver's bindings united with the extra ones, and the patch of Let
\* touches only the Env that Let has just created.
C9_EnvsAreNeverChanged == [][C9_Step]_vars

C9_Witness ==
    /\ prog = FactProgram(MaxFact)
    /\ mode = "done"
    /\ Len(heap) > MaxFact
    /\ heap[1] = global_env
    /\ heap[2]["f"] = Closure(prog.value, 2)

(* operand order *)

OperandText(term) == LiteralStr(OperandValue(term))

\* C10: for every Binary, `&` and `|` included, lhs is evaluated and then rhs
\* before the operator or the operand kinds are looked at, so what rhs prints
\* always appears, after what lhs prints; when lhs fails rhs is not evaluated.
C10_BothOperandsFirst ==
    prog \in BinaryPrintPrograms =>
        LET expected == IF prog.lhs = Undefined THEN <<>>
                        ELSE OperandText(prog.lhs.value) \o OperandText(prog.rhs.value)
        IN  /\ Prefix(out, expected)
            /\ Terminal => out = expected
            /\ (Terminal /\ prog.lhs = Undefined) =>
                    (mode = "error" /\ err = "unknown variable")

C10_Witness ==
    /\ prog = Binary(PrintTerm(false), "AND", PrintTerm(IntTerm(1)))
    /\ mode = "error"
    /\ err = "Invalid operands"
    /\ out = <<70, 97, 108, 115, 101, 49>>
====
